---- MODULE Spec2Model ----
(***************************************************************************)
(* The playback engine of HistoricalCinema3D (src/unnamed/part_001): the   *)
(* React state of the component, its event handlers, the autoplay effect   *)
(* with its interval, and the speech synthesiser the speak() helper talks  *)
(* to.  One action per handler; a handler's action contains the re-render  *)
(* it causes, i.e. the cleanup and re-run of the autoplay effect.          *)
(***************************************************************************)
EXTENDS Integers, Sequences, FiniteSets, TLC

VARIABLES
    eventName,        \* useState<string>("")            line 465
    scenes,           \* useState<Scene[]>([])           line 466, with the array's identity
    active,           \* useState<number>(0)             line 467
    playing,          \* useState<boolean>(false)        line 468
    autoplay,         \* useState<boolean>(true)         line 469
    narration,        \* useState<boolean>(true)         line 470
    quality,          \* useState<0|1|2>(1)              line 471
    loading,          \* useState<boolean>(false)        line 472
    locale,           \* useState<Locale>("en-US")       line 463
    speechAvailable,  \* whether window.speechSynthesis exists (line 258)
    utterance,        \* the synthesiser's queue of utterances; the head is being spoken
    timer,            \* the interval of the autoplay effect and what its callback closed over
    intervals,        \* how many intervals window holds (set and not yet cleared)
    shows,            \* how many arrays the scene provider has returned so far
    last,             \* the handler that ran last and the calls it made
    run,              \* the current run of consecutive next() or previous() calls
    clock,            \* elapsed-time bookkeeping used to state the timing claims
    observe,          \* which bookkeeping is kept ("handler", "run", "clock", "nav", "camera")
    mounted,          \* whether the component is mounted
    camera            \* the camera CameraRig drives: its mode, frame time and pose

vars == <<eventName, scenes, active, playing, autoplay, narration, quality, loading,
          locale, speechAvailable, utterance, timer, shows, last, run, clock, observe,
          mounted, camera, intervals>>

----------------------------------------------------------------------------
(* Bounds of the model. *)

\* startShow is enabled until this many sequences have been installed.
MaxShows == 2

\* The interval's period is observed at this many instants (0, Period/Grain, ..., Period).
Grain == 2

\* The longest consecutive run of next() or previous() calls that is tracked.
MaxRun == 4

\* The longest array a plugged-in provider returns.
MaxPlugged == 2

\* The camera is followed for frames at elapsed times 0..MaxTime seconds.
MaxTime == 2

----------------------------------------------------------------------------
(* Constants of the program. *)

\* The interval's period in milliseconds (window.setInterval(..., 6800)).
Period == 6800

\* The radius and the height of the orbit-slow trajectory.
OrbitRadius == 6

OrbitHeight == 2

----------------------------------------------------------------------------
(* Text: strings are sequences of characters so that trim, toLowerCase and *)
(* includes are computed, not assumed.                                     *)

IsSpace(c) == c \in {" ", "\t", "\n"}

RECURSIVE TrimStart(_)
TrimStart(s) == IF s # <<>> /\ IsSpace(Head(s)) THEN TrimStart(Tail(s)) ELSE s

RECURSIVE TrimEnd(_)
TrimEnd(s) ==
    IF s # <<>> /\ IsSpace(s[Len(s)]) THEN TrimEnd(SubSeq(s, 1, Len(s) - 1)) ELSE s

\* Mutant: the name is used as typed, without .trim().
TrimNothing(s) == s

Trim(s) == TrimEnd(TrimStart(s))

LowerOf(c) ==
    CASE c = "A" -> "a" [] c = "E" -> "e" [] c = "G" -> "g" [] c = "I" -> "i"
      [] c = "L" -> "l" [] c = "M" -> "m" [] c = "R" -> "r" [] c = "S" -> "s"
      [] c = "W" -> "w" [] OTHER -> c

ToLowerCase(s) == [i \in 1..Len(s) |-> LowerOf(s[i])]

Includes(s, sub) ==
    \E i \in 0..(Len(s) - Len(sub)) : SubSeq(s, i + 1, i + Len(sub)) = sub

----------------------------------------------------------------------------
(* Scenes.  A scene is kept as the two fields the engine reads: the        *)
(* narration handed to speak() and the camera style handed to CameraRig.   *)

Scene(text, style) == [narration |-> text, cameraStyle |-> style]

MoonScenes ==
    << Scene("The spacecraft glides", "orbit-slow"),
       Scene("Dust blooms", "dolly-in"),
       Scene("A boot presses down", "locked-off") >>

EgyptScenes ==
    << Scene("Sand breathes heat", "crane-up"),
       Scene("Flame halos dance", "dolly-in"),
       Scene("River murmurs", "orbit-slow") >>

WarScenes ==
    << Scene("Engines roar", "handheld"),
       Scene("Windows go blind", "orbit-slow"),
       Scene("Coats rustle", "locked-off") >>

DefaultScenes ==
    << Scene("Crowds gather", "dolly-in"),
       Scene("The world leans forward", "handheld"),
       Scene("Footsteps fade", "orbit-slow") >>

generateScenesLocally(eventNameArg) ==
    LET e == ToLowerCase(Trim(eventNameArg)) IN
    IF Includes(e, <<"m","o","o","n">>) \/ Includes(e, <<"a","p","o","l","l","o">>)
    THEN MoonScenes
    ELSE IF Includes(e, <<"e","g","y","p","t">>)
    THEN EgyptScenes
    ELSE IF \/ Includes(e, <<"w","o","r","l","d"," ","w","a","r">>)
            \/ Includes(e, <<"w","w","i","i">>)
            \/ Includes(e, <<"w","w","2">>)
    THEN WarScenes
    ELSE DefaultScenes

----------------------------------------------------------------------------
(* Inputs: the suggestion clicked and the text typed.                      *)

\* T[locale].moonLanding, the label of the first suggestion button, which
\* is the one the viewer clicks in this model.
SuggestedEvents(loc) ==
    IF loc = "en-US"
    THEN { <<"M","o","o","n"," ","L","a","n","d","i","n","g">> }
    ELSE { <<"A","l","u","n","i","z","a","j","e">> }

\* What the viewer types into the event box in this model.
TypedTopics ==
    { <<" ", " ">>, <<" ","A","p","o","l","l","o"," ">> }

Locales == {"en-US", "es-ES"}

----------------------------------------------------------------------------
(* The speech synthesiser and speak().                                     *)

\* The synthesiser keeps a queue of utterances: the head is being spoken,
\* the others wait. An utterance is modelled by its text (its lang, rate and
\* pitch are kept in the record of the call only).
NoUtterance == << >>

Utterance(text, lang) == [text |-> text]

\* Mutant: cancel() leaves the queue as it is.
SynthCancelKeeps(queue) == queue

\* speechSynthesis.cancel() removes every utterance from the queue.
SynthCancel(queue) == << >>

\* speechSynthesis.speak(u) adds u to the end of the queue.
SynthSpeak(queue, u) == Append(queue, u)

\* Whether an utterance is being spoken.
Speaking == utterance # << >>

\* scenes[idx]?.narration, then `text ?? ""` in speak().
NarrationAt(list, idx) ==
    IF idx + 1 \in DOMAIN list THEN list[idx + 1].narration ELSE ""

\* The guard of speak(): true when speak() goes on to the synthesiser.
SpeakPasses(enabled) == enabled /\ speechAvailable

\* The calls speak() makes on window.speechSynthesis, in order.
SpeakCalls(text, enabled, lang) ==
    IF SpeakPasses(enabled)
    THEN << [call |-> "cancel", text |-> "", lang |-> ""],
            [call |-> "speak", text |-> text, lang |-> lang] >>
    ELSE << >>

\* The synthesiser after speak(): cancel() empties the queue, speak(u) adds u.
SpeakResult(text, enabled, lang) ==
    IF SpeakPasses(enabled)
    THEN SynthSpeak(SynthCancel(utterance), Utterance(text, lang))
    ELSE utterance

----------------------------------------------------------------------------
(* The autoplay effect.                                                    *)

EmptyScenes == [id |-> 0, list |-> << >>]

NoTimer ==
    [armed |-> FALSE, elapsed |-> 0, scenes |-> EmptyScenes,
     narration |-> FALSE, locale |-> ""]

\* Mutant: narration is missing from the dependency array.
EffectDepsNoNarration(p, a, s, n, l) == <<p, a, s.id, l>>

\* Mutant: locale is missing from the dependency array.
EffectDepsNoLocale(p, a, s, n, l) == <<p, a, s.id, n>>

\* Mutant: autoplay is missing from the dependency array.
EffectDepsNoAutoplay(p, a, s, n, l) == <<p, s.id, n, l>>

\* Mutant: the scenes are compared by content instead of identity.
EffectDepsByContent(p, a, s, n, l) == <<p, a, s.list, n, l>>

\* The dependency array [playing, autoplay, scenes, narration, locale]; React
\* compares each with Object.is, so the array `scenes` counts by identity.
EffectDeps(p, a, s, n, l) == <<p, a, s.id, n, l>>

\* Mutant: the early return does not look at playing.
EffectArmsIgnoresPlaying(p, a, s) == ~(~a \/ Len(s.list) = 0)

\* The negation of the effect's early return.
EffectArms(p, a, s) == ~(~p \/ ~a \/ Len(s.list) = 0)

\* The interval the effect body sets, with what its callback closes over.
ArmedTimer(s, n, l) ==
    [armed |-> TRUE, elapsed |-> 0, scenes |-> s, narration |-> n, locale |-> l]

\* Mutant: active is in the dependency array too.
EffectRerunsOnActive ==
    <<active', EffectDeps(playing', autoplay', scenes', narration', locale')>>
        # <<active, EffectDeps(playing, autoplay, scenes, narration, locale)>>

\* Mutant: the effect has no dependency array and re-runs on every render.
EffectRerunsEveryRender == TRUE

\* Mutant: the effect returns no cleanup when it re-runs.
ClearIntervalMissing(n, t) == n

\* window.clearInterval(handle) by the effect's cleanup: the interval the
\* effect holds, if it set one, is no longer among the window's n intervals.
ClearInterval(n, t) == IF t.armed THEN n - 1 ELSE n

\* window.setInterval: one more interval.
SetInterval(n) == n + 1

\* Whether this render re-runs the effect (cleanup, then the body).
EffectReruns ==
    EffectDeps(playing', autoplay', scenes', narration', locale')
        # EffectDeps(playing, autoplay, scenes, narration, locale)

\* The render after a handler: clearInterval(handle) by the cleanup and a
\* new setInterval by the body when the dependencies changed.
AutoplayEffect ==
    /\ timer' = IF EffectReruns
                THEN IF EffectArms(playing', autoplay', scenes')
                     THEN ArmedTimer(scenes', narration', locale')
                     ELSE NoTimer
                ELSE timer
    /\ intervals' = IF EffectReruns
                    THEN IF EffectArms(playing', autoplay', scenes')
                         THEN SetInterval(ClearInterval(intervals, timer))
                         ELSE ClearInterval(intervals, timer)
                    ELSE intervals

----------------------------------------------------------------------------
(* Index arithmetic of the handlers.  JavaScript's % takes the sign of the *)
(* dividend.                                                               *)

JsRem(a, b) == IF a >= 0 THEN a % b ELSE 0 - ((0 - a) % b)

\* Mutant: the index stops at the last scene.
NextIndexStalls(i, len) == IF i + 1 >= len THEN i ELSE i + 1

\* Mutant: the index is incremented without wrapping.
NextIndexNoWrap(i, len) == i + 1

NextIndex(i, len) == JsRem(i + 1, len)

\* Mutant: the length is not added before taking the remainder.
PreviousIndexNoOffset(i, len) == JsRem(i - 1, len)

PreviousIndex(i, len) == JsRem(i - 1 + len, len)

----------------------------------------------------------------------------
(* Bookkeeping of the model: which handler ran last, the run of            *)
(* consecutive next()/previous() calls, and elapsed time.                  *)

NoHandler == [op |-> "", calls |-> << >>, provided |-> FALSE, answer |-> ""]

\* last: the handler that ran, the calls it made on the synthesiser,
\* whether it called the scene provider and, if so, what the provider
\* answered ("scenes", "empty", "unknownStyle" or "threw").
Handled(op, calls, provided) ==
    IF observe = "handler"
    THEN [op |-> op, calls |-> calls, provided |-> provided, answer |-> ""]
    ELSE NoHandler

Answered(h, answer) ==
    IF observe = "handler" THEN [h EXCEPT !.answer = answer] ELSE h

NoRun == [kind |-> "none", n |-> 0]

\* run: [kind, n] says that the last n navigation calls were all `kind`
\* ("next" or "previous") and that the first of them was made at index 0.
\* The run after a call of `kind` made at index i:
RunAfter(kind, i) ==
    IF observe # "run" THEN NoRun
    ELSE IF run.kind = kind /\ run.n < MaxRun THEN [run EXCEPT !.n = run.n + 1]
    ELSE IF i = 0 THEN [kind |-> kind, n |-> 1]
    ELSE NoRun

Min(a, b) == IF a <= b THEN a ELSE b

\* Time is observed every TimeStep milliseconds and when the interval is due.
TimeStep == (Period + Grain - 1) \div Grain

\* The reading of a stopwatch that has run for more than one period.
Beyond == Period + TimeStep

Later(t, d) == Min(Beyond, t + d)

CoreChanged ==
    <<scenes'.id, playing', autoplay'>> # <<scenes.id, playing, autoplay>>

AnyDepChanged ==
    <<scenes'.id, playing', autoplay', narration', locale'>>
        # <<scenes.id, playing, autoplay, narration, locale>>

AutoplaySwitchedOn == autoplay' /\ ~autoplay

NoClock ==
    [core |-> Beyond, deps |-> Beyond, autoOn |-> Beyond, autoFresh |-> FALSE,
     fired |-> FALSE, nav |-> Beyond]

\* clock.core: time since sequence, playing or autoplay last changed or the
\*   interval last fired; clock.deps: the same with narration and locale
\*   counted as changes; clock.autoOn: time since autoplay was last switched
\*   on; clock.autoFresh: no other dependency has changed and the interval
\*   has not fired since that switch; clock.fired: the step just taken was
\*   the interval's callback.  These are kept when observe = "clock".
\* clock.nav: time since the last click on previous or next or move of the
\*   seek slider; kept, with clock.fired, when observe = "nav".
ClockAfterHandler ==
    clock' = IF observe = "nav" THEN [clock EXCEPT !.fired = FALSE]
             ELSE IF observe # "clock" THEN NoClock
             ELSE [core |-> IF CoreChanged THEN 0 ELSE clock.core,
                   deps |-> IF AnyDepChanged THEN 0 ELSE clock.deps,
                   autoOn |-> IF AutoplaySwitchedOn THEN 0
                              ELSE IF autoplay' THEN clock.autoOn ELSE Beyond,
                   autoFresh |-> IF AutoplaySwitchedOn THEN TRUE
                                 ELSE IF AnyDepChanged THEN FALSE ELSE clock.autoFresh,
                   fired |-> FALSE,
                   nav |-> Beyond]

\* The clock after previous, next or seek.
ClockAfterNavigation ==
    IF observe = "nav" THEN clock' = [clock EXCEPT !.nav = 0, !.fired = FALSE]
    ELSE ClockAfterHandler

ClockAfterFire ==
    clock' = IF observe = "nav" THEN [clock EXCEPT !.fired = TRUE]
             ELSE IF observe # "clock" THEN NoClock
             ELSE [clock EXCEPT !.core = 0, !.deps = 0, !.autoFresh = FALSE,
                                !.fired = TRUE]

ClockAfterTick(d) ==
    clock' = IF observe = "nav"
             THEN [clock EXCEPT !.nav = Later(clock.nav, d), !.fired = FALSE]
             ELSE IF observe # "clock" THEN NoClock
             ELSE [clock EXCEPT !.core = Later(clock.core, d),
                                !.deps = Later(clock.deps, d),
                                !.autoOn = Later(clock.autoOn, d),
                                !.fired = FALSE]

\* The re-render a handler causes.
Rendered == AutoplayEffect /\ ClockAfterHandler

\* The same after previous, next or seek.
RenderedAfterNavigation == AutoplayEffect /\ ClockAfterNavigation

\* The six values of CameraStyle.
CameraStyles ==
    {"dolly-in", "crane-up", "orbit-slow", "handheld", "locked-off", "push-pull"}

----------------------------------------------------------------------------
(* CameraRig: the useFrame callback that moves the camera.  Numbers are    *)
(* kept in thousandths; sine and cosine are computed from their series.    *)

\* One, in thousandths.
Milli == 1000

\* The product of two numbers kept in thousandths.
Mul(a, b) == (a * b) \div Milli

\* Math.sin and Math.cos of an angle in thousandths of a radian.
Sin(x) == x - (Mul(Mul(x, x), x) \div 6) + (Mul(Mul(Mul(Mul(x, x), x), x), x) \div 120)

Cos(x) == Milli - (Mul(x, x) \div 2) + (Mul(Mul(Mul(x, x), x), x) \div 24)

\* Vector3.lerp on one coordinate: p += (target - p) * alpha.
Lerp(p, target, alpha) == p + Mul(target - p, alpha)

\* (Math.random() - 0.5) * 0.01 and (Math.random() - 0.5) * 0.002, sampled.
Jitter == {0 - 4, 4}

RollJitter == {0 - 1, 1}

\* The camera while no rig is followed.
NoCamera ==
    [mode |-> "", t |-> 0, x |-> 0, y |-> 0, z |-> 0, look |-> <<0, 0, 0>>, roll |-> 0,
     branch |-> ""]

\* The Canvas camera, position [0, 2, 8], and another pose an earlier rig
\* may have left the camera in.
StartPoses ==
    { [x |-> 0, y |-> 2 * Milli, z |-> 8 * Milli, look |-> <<0, 0, 0>>, roll |-> 0],
      [x |-> 600, y |-> 1500, z |-> 4400, look |-> <<0, 1000, 0>>, roll |-> 2] }

\* The case of the switch that runs for a mode: there are cases for
\* dolly-in, crane-up, handheld and locked-off; orbit-slow shares the default.
Branch(mode) ==
    CASE mode \in {"dolly-in", "crane-up", "handheld", "locked-off"} -> mode
      [] OTHER -> "orbit-slow"

\* Mutant: the orbit eases towards its point like the other branches.
OrbitSlowLerps(cam, t) ==
    [cam EXCEPT !.x = Lerp(cam.x, Mul(Sin(100 * t), OrbitRadius * Milli), 10),
                !.z = Lerp(cam.z, Mul(Cos(100 * t), OrbitRadius * Milli), 10),
                !.y = Lerp(cam.y, OrbitHeight * Milli, 10),
                !.look = <<0, 1200, 0>>]

\* The bodies of the cases, at elapsed time t seconds.
DollyIn(cam, t) ==
    [cam EXCEPT !.x = Lerp(cam.x, 0, 10),
                !.y = Lerp(cam.y, 1500, 10),
                !.z = Lerp(cam.z, 4 * Milli + Mul(Cos(250 * t), 400), 10)]

CraneUp(cam, t) ==
    [cam EXCEPT !.x = Lerp(cam.x, Mul(600, Sin(300 * t)), 10),
                !.y = Lerp(cam.y, 2 * Milli + Sin(150 * t), 10),
                !.z = Lerp(cam.z, 6 * Milli, 10)]

Handheld(cam, jx, jy, jr) ==
    [cam EXCEPT !.x = cam.x + jx, !.y = cam.y + jy, !.roll = cam.roll + jr]

LockedOff(cam, t) ==
    [cam EXCEPT !.x = Lerp(cam.x, 0, 25),
                !.y = Lerp(cam.y, 1600, 25),
                !.z = Lerp(cam.z, 6 * Milli, 25),
                !.look = <<0, Milli, 0>>]

OrbitSlow(cam, t) ==
    [cam EXCEPT !.x = Mul(Sin(100 * t), OrbitRadius * Milli),
                !.z = Mul(Cos(100 * t), OrbitRadius * Milli),
                !.y = OrbitHeight * Milli,
                !.look = <<0, 1200, 0>>]

\* One call of the useFrame callback.
CameraRig(cam, jx, jy, jr) ==
    LET b == Branch(cam.mode)
        moved == CASE b = "dolly-in" -> DollyIn(cam, cam.t)
                   [] b = "crane-up" -> CraneUp(cam, cam.t)
                   [] b = "handheld" -> Handheld(cam, jx, jy, jr)
                   [] b = "locked-off" -> LockedOff(cam, cam.t)
                   [] b = "orbit-slow" -> OrbitSlow(cam, cam.t)
    IN [moved EXCEPT !.branch = b]

\* A frame is rendered; the next one followed comes a second later.
Frame ==
    /\ camera.t <= MaxTime
    /\ \E jx \in Jitter, jy \in Jitter, jr \in RollJitter :
          camera' = [CameraRig(camera, jx, jy, jr) EXCEPT !.t = camera.t + 1]
    /\ UNCHANGED <<eventName, scenes, active, playing, autoplay, narration, quality,
                   loading, locale, speechAvailable, utterance, timer, shows, last, run,
                   clock, observe, mounted, intervals>>

\* Another scene becomes current: CameraRig is rendered with its cameraStyle.
ChangeMode ==
    /\ \E mode \in CameraStyles : camera' = [camera EXCEPT !.mode = mode]
    /\ UNCHANGED <<eventName, scenes, active, playing, autoplay, narration, quality,
                   loading, locale, speechAvailable, utterance, timer, shows, last, run,
                   clock, observe, mounted, intervals>>

----------------------------------------------------------------------------
(* Initial state: the useState initialisers; the effect's first run        *)
(* returns early because playing is false.                                 *)

InitProgram ==
    /\ eventName = << >>
    /\ scenes = EmptyScenes
    /\ active = 0
    /\ playing = FALSE
    /\ autoplay = TRUE
    /\ narration = TRUE
    /\ quality = 1
    /\ loading = FALSE
    /\ locale = "en-US"
    /\ speechAvailable \in BOOLEAN
    /\ utterance = NoUtterance
    /\ timer = NoTimer
    /\ intervals = 0
    /\ shows = 0
    /\ last = NoHandler
    /\ run = NoRun
    /\ clock = NoClock
    /\ mounted = TRUE

\* The program with the record of the last handler kept.
Init == InitProgram /\ observe = "handler" /\ camera = NoCamera

\* The program with the runs of next()/previous() kept.
InitRun == InitProgram /\ observe = "run" /\ camera = NoCamera

\* The program with the stopwatches kept.
InitClock == InitProgram /\ observe = "clock" /\ camera = NoCamera

\* The program with the time since the last manual navigation kept.
InitNav == InitProgram /\ observe = "nav" /\ camera = NoCamera

----------------------------------------------------------------------------
(* startShow.  The function has no await, so it runs to completion inside  *)
(* the click; setLoading(true) and setLoading(false) are batched into one  *)
(* render and `loading` is false again when the handler returns.           *)

\* The one-element set of what the shipped provider returns for a name.
LocalProvider(name) == { generateScenesLocally(name) }

\* An array whose last scene has a camera style outside CameraStyles.
WithUnknownStyle(list) ==
    [i \in DOMAIN list |->
        IF i = Len(list) THEN [list[i] EXCEPT !.cameraStyle = "warp-speed"] ELSE list[i]]

\* Another provider plugged in, as the note at the end of the source file
\* describes: it returns an array of scenes of any length from 0 to MaxPlugged.
PluggedProvider(name) ==
    { SubSeq(generateScenesLocally(name), 1, n) : n \in 0..Min(MaxPlugged, 3) }

\* A plugged-in provider that can fail: besides a proper array it may return
\* an empty array or an array with a camera style the engine does not know,
\* or throw (a rejected fetch).
FailingProvider(name) ==
    { generateScenesLocally(name), << >>, WithUnknownStyle(generateScenesLocally(name)) }

\* Whether the provider in place can throw: generateScenesLocally cannot.
ProviderMayThrow(provider) == provider = "failing"

\* What the provider's answer was.
AnswerKind(local) ==
    IF local = << >> THEN "empty"
    ELSE IF \E i \in DOMAIN local : local[i].cameraStyle \notin CameraStyles
    THEN "unknownStyle"
    ELSE "scenes"

\* The arrays startShow may receive for a name.
Provided(name, provider) ==
    CASE provider = "local" -> LocalProvider(name)
      [] provider = "plugged" -> PluggedProvider(name)
      [] provider = "failing" -> FailingProvider(name)

\* Mutant: setActive(0) is missing from the try block.
TryBlockKeepsActive(local, op) ==
    /\ scenes' = [id |-> shows + 1, list |-> local]
    /\ active' = active
    /\ playing' = TRUE
    /\ utterance' = SpeakResult(NarrationAt(local, 0), narration, locale)
    /\ last' = Answered(Handled(op, SpeakCalls(NarrationAt(local, 0), narration, locale),
                                 TRUE), AnswerKind(local))
    /\ shows' = shows + 1
    /\ run' = NoRun

\* The try block once the provider has returned `local`, a fresh array:
\* setScenes(local); setActive(0); setPlaying(true); speak(local[0]?.narration, ...).
TryBlock(local, op) ==
    /\ scenes' = [id |-> shows + 1, list |-> local]
    /\ active' = 0
    /\ playing' = TRUE
    /\ utterance' = SpeakResult(NarrationAt(local, 0), narration, locale)
    /\ last' = Answered(Handled(op, SpeakCalls(NarrationAt(local, 0), narration, locale),
                                 TRUE), AnswerKind(local))
    /\ shows' = shows + 1
    /\ run' = NoRun

\* The catch block, when the provider threw: console.error(e); alert(...).
\* No setter has run.
CatchBlock(op) ==
    /\ last' = Answered(Handled(op, << >>, TRUE), "threw")
    /\ UNCHANGED <<scenes, active, playing, utterance, shows, run>>

\* evt: [given, value] is the optional argument; provider says which provider
\* is in place.
startShow(evt, provider, op) ==
    LET name == Trim(IF evt.given THEN evt.value ELSE eventName) IN
    IF name = << >>
    THEN /\ UNCHANGED <<scenes, active, playing, loading, utterance, shows, run>>
         /\ last' = Handled(op, << >>, FALSE)
    ELSE /\ shows < MaxShows
         /\ \/ \E local \in Provided(name, provider) : TryBlock(local, op)
            \/ ProviderMayThrow(provider) /\ CatchBlock(op)
         /\ loading' = FALSE

\* <Input onChange>: setEventName(e.target.value).
TypeEventName ==
    \E text \in TypedTopics :
        /\ mounted
        /\ eventName' = text
        /\ last' = Handled("type", << >>, FALSE)
        /\ UNCHANGED <<scenes, active, playing, autoplay, narration, quality, loading,
                       locale, speechAvailable, utterance, shows, run, observe, mounted, camera>>
        /\ Rendered

\* The "Begin the chronicle" button: startShow().
BeginClick(provider) ==
    /\ mounted
    /\ startShow([given |-> FALSE, value |-> << >>], provider, "startShow")
    /\ UNCHANGED <<eventName, autoplay, narration, quality, locale, speechAvailable,
                   observe, mounted, camera>>
    /\ Rendered

\* A suggestion button, rendered while scenes.length === 0:
\* setEventName(x); startShow(x).
SuggestionClick(provider) ==
    /\ mounted
    /\ Len(scenes.list) = 0
    /\ \E x \in SuggestedEvents(locale) :
        /\ eventName' = x
        /\ startShow([given |-> TRUE, value |-> x], provider, "suggestion")
    /\ UNCHANGED <<autoplay, narration, quality, locale, speechAvailable, observe, mounted, camera>>
    /\ Rendered

----------------------------------------------------------------------------
(* The transport controls, rendered while scenes.length > 0.               *)

\* Mutant: the updater returns early when the index does not move.
ActivateSkipsSame(idx, list, enabled, lang, op) ==
    /\ active' = idx
    /\ utterance' = IF idx = active THEN utterance
                     ELSE SpeakResult(NarrationAt(list, idx), enabled, lang)
    /\ last' = Handled(op, IF idx = active THEN << >>
                            ELSE SpeakCalls(NarrationAt(list, idx), enabled, lang), FALSE)

\* What a setActive updater that speaks does: the index moves to idx and
\* speak() is called for the scene at idx of `list`.
Activate(idx, list, enabled, lang, op) ==
    /\ active' = idx
    /\ utterance' = SpeakResult(NarrationAt(list, idx), enabled, lang)
    /\ last' = Handled(op, SpeakCalls(NarrationAt(list, idx), enabled, lang), FALSE)

\* The SkipBack button.
PreviousClick ==
    /\ mounted
    /\ Len(scenes.list) > 0
    /\ Activate(PreviousIndex(active, Len(scenes.list)), scenes.list, narration, locale,
                "previous")
    /\ run' = RunAfter("previous", active)
    /\ UNCHANGED <<eventName, scenes, playing, autoplay, narration, quality, loading,
                   locale, speechAvailable, shows, observe, mounted, camera>>
    /\ RenderedAfterNavigation

\* The SkipForward button.
NextClick ==
    /\ mounted
    /\ Len(scenes.list) > 0
    /\ Activate(NextIndex(active, Len(scenes.list)), scenes.list, narration, locale,
                "next")
    /\ run' = RunAfter("next", active)
    /\ UNCHANGED <<eventName, scenes, playing, autoplay, narration, quality, loading,
                   locale, speechAvailable, shows, observe, mounted, camera>>
    /\ RenderedAfterNavigation

\* Mutant: the Play/Pause button also speaks the current scene.
TogglePlaySpeaks ==
    /\ mounted
    /\ Len(scenes.list) > 0
    /\ playing' = ~playing
    /\ Activate(active, scenes.list, narration, locale, "togglePlay")
    /\ UNCHANGED <<eventName, scenes, autoplay, narration, quality, loading,
                   locale, speechAvailable, shows, run, observe, mounted, camera>>
    /\ Rendered

\* The Play/Pause button: setPlaying((p) => !p).
TogglePlay ==
    /\ mounted
    /\ Len(scenes.list) > 0
    /\ playing' = ~playing
    /\ last' = Handled("togglePlay", << >>, FALSE)
    /\ UNCHANGED <<eventName, scenes, active, autoplay, narration, quality, loading,
                   locale, speechAvailable, utterance, shows, run, observe, mounted, camera>>
    /\ Rendered

\* The values an <input type="range" min max step=1> can report.
SliderValues(min, max) == min..max

Max(a, b) == IF a >= b THEN a ELSE b

\* The slider's onValueChange: (v) => setActive(v[0] ?? 0).
SeekTo(v, op) ==
    /\ active' = v
    /\ last' = Handled(op, << >>, FALSE)
    /\ run' = NoRun

\* The seek slider: min 0, max Math.max(0, scenes.length - 1).
Seek ==
    /\ mounted
    /\ Len(scenes.list) > 0
    /\ \E v \in SliderValues(0, Max(0, Len(scenes.list) - 1)) : SeekTo(v, "seek")
    /\ UNCHANGED <<eventName, scenes, playing, autoplay, narration, quality, loading,
                   locale, speechAvailable, utterance, shows, observe, mounted, camera>>
    /\ RenderedAfterNavigation

\* The indexes a caller of goTo(index) may pass: those of the sequence and
\* one beyond each end.
GoToIndexes == (0 - 1)..Len(scenes.list)

\* goTo(index) called with any index: the slider's onValueChange is the only
\* code that seeks, and a caller other than the range input hands it the
\* index as it is.
GoToCall(index) ==
    /\ mounted
    /\ Len(scenes.list) > 0
    /\ SeekTo(index, "goTo")
    /\ UNCHANGED <<eventName, scenes, playing, autoplay, narration, quality, loading,
                   locale, speechAvailable, utterance, shows, observe, mounted, camera>>
    /\ Rendered

GoTo == \E index \in GoToIndexes : GoToCall(index)

----------------------------------------------------------------------------
(* The settings.                                                           *)

\* The autoplay checkbox: setAutoplay(e.target.checked).
SetAutoplay ==
    /\ mounted
    /\ autoplay' = ~autoplay
    /\ last' = Handled("setAutoplay", << >>, FALSE)
    /\ UNCHANGED <<eventName, scenes, active, playing, narration, quality, loading,
                   locale, speechAvailable, utterance, shows, run, observe, mounted, camera>>
    /\ Rendered

\* The narration checkbox: setNarration(e.target.checked).
SetNarration ==
    /\ mounted
    /\ narration' = ~narration
    /\ last' = Handled("setNarration", << >>, FALSE)
    /\ UNCHANGED <<eventName, scenes, active, playing, autoplay, quality, loading,
                   locale, speechAvailable, utterance, shows, run, observe, mounted, camera>>
    /\ Rendered

\* The quality slider: setQuality(v[0] ?? 1), min 0, max 2.
SetQuality ==
    /\ mounted
    /\ \E v \in SliderValues(0, 2) : quality' = v
    /\ last' = Handled("setQuality", << >>, FALSE)
    /\ UNCHANGED <<eventName, scenes, active, playing, autoplay, narration, loading,
                   locale, speechAvailable, utterance, shows, run, observe, mounted, camera>>
    /\ Rendered

\* The language select: setLocale(v).
SetLocale ==
    /\ mounted
    /\ \E v \in Locales : locale' = v
    /\ last' = Handled("setLocale", << >>, FALSE)
    /\ UNCHANGED <<eventName, scenes, active, playing, autoplay, narration, quality,
                   loading, speechAvailable, utterance, shows, run, observe, mounted, camera>>
    /\ Rendered

----------------------------------------------------------------------------
(* The interval, time and the synthesiser.                                 *)

\* The interval is due.
TimerDue == timer.armed /\ timer.elapsed = Period

\* The interval's callback, with the scenes, narration and locale it closed
\* over; `active` is not a dependency of the effect, so the interval stays.
TimerFire ==
    /\ TimerDue
    /\ Activate(NextIndex(active, Len(timer.scenes.list)), timer.scenes.list,
                timer.narration, timer.locale, "timer")
    /\ run' = RunAfter("next", active)
    /\ timer' = [timer EXCEPT !.elapsed = 0]
    /\ ClockAfterFire
    /\ UNCHANGED <<eventName, scenes, playing, autoplay, narration, quality, loading,
                   locale, speechAvailable, shows, observe, mounted, camera, intervals>>

\* Time passes, up to the instant the interval is due.
Tick ==
    /\ ~TimerDue
    /\ LET d == IF timer.armed THEN Min(TimeStep, Period - timer.elapsed) ELSE TimeStep IN
        /\ timer' = IF timer.armed THEN [timer EXCEPT !.elapsed = timer.elapsed + d]
                    ELSE timer
        /\ ClockAfterTick(d)
    /\ UNCHANGED <<eventName, scenes, active, playing, autoplay, narration, quality,
                   loading, locale, speechAvailable, utterance, shows, run, observe,
                   mounted, camera, last, intervals>>

\* The synthesiser finishes the utterance it is speaking and goes on to the
\* next one of its queue.
UtteranceEnds ==
    /\ Speaking
    /\ utterance' = Tail(utterance)
    /\ UNCHANGED <<eventName, scenes, active, playing, autoplay, narration, quality,
                   loading, locale, speechAvailable, timer, shows, run, clock, observe,
                   mounted, camera, last, intervals>>

\* Mutant: the autoplay effect returns no cleanup.
UnmountCleanupLeaks(t) == t

\* The autoplay effect's cleanup, run at unmount: clearInterval(handle).
UnmountCleanup(t) == NoTimer

\* The component unmounts: React runs the cleanup of every effect, the one
\* of lines 474-480 (speechSynthesis?.cancel()) and the one of the autoplay
\* effect. Nothing is rendered any more, so no handler can run.
Unmount ==
    /\ mounted
    /\ mounted' = FALSE
    /\ utterance' = IF speechAvailable THEN SynthCancel(utterance) ELSE utterance
    /\ timer' = UnmountCleanup(timer)
    /\ intervals' = IF timer'.armed THEN intervals ELSE ClearInterval(intervals, timer)
    /\ last' = Handled("unmount",
                       IF speechAvailable
                       THEN << [call |-> "cancel", text |-> "", lang |-> ""] >>
                       ELSE << >>, FALSE)
    /\ UNCHANGED <<eventName, scenes, active, playing, autoplay, narration, quality,
                   loading, locale, speechAvailable, shows, run, observe, camera>>
    /\ ClockAfterHandler

----------------------------------------------------------------------------
(* The program as shipped: the provider is generateScenesLocally.          *)

Next ==
    \/ TypeEventName
    \/ BeginClick("local")
    \/ SuggestionClick("local")
    \/ PreviousClick
    \/ NextClick
    \/ TogglePlay
    \/ Seek
    \/ SetAutoplay
    \/ SetNarration
    \/ SetQuality
    \/ SetLocale
    \/ TimerFire
    \/ Tick
    \/ UtteranceEnds
    \/ Unmount

Spec == Init /\ [][Next]_vars

SpecRun == InitRun /\ [][Next]_vars

SpecClock == InitClock /\ [][Next]_vars

SpecNav == InitNav /\ [][Next]_vars

\* The program with time passing and the browser running the interval's
\* callback when it is due.
SpecLive == InitRun /\ [][Next]_vars /\ WF_vars(Tick) /\ WF_vars(TimerFire)

----------------------------------------------------------------------------
(* The engine with another provider plugged in.                            *)

NextPlugged ==
    \/ TypeEventName
    \/ BeginClick("plugged")
    \/ SuggestionClick("plugged")
    \/ PreviousClick
    \/ NextClick
    \/ TogglePlay
    \/ Seek
    \/ SetAutoplay
    \/ SetNarration
    \/ SetQuality
    \/ SetLocale
    \/ TimerFire
    \/ Tick
    \/ UtteranceEnds
    \/ Unmount

SpecPlugged == Init /\ [][NextPlugged]_vars

----------------------------------------------------------------------------
(* The engine with a provider plugged in that can fail.                    *)

NextFailing ==
    \/ TypeEventName
    \/ BeginClick("failing")
    \/ SuggestionClick("failing")
    \/ PreviousClick
    \/ NextClick
    \/ TogglePlay
    \/ Seek
    \/ SetAutoplay
    \/ SetNarration
    \/ SetQuality
    \/ SetLocale
    \/ TimerFire
    \/ Tick
    \/ UtteranceEnds
    \/ Unmount

SpecFailing == Init /\ [][NextFailing]_vars

----------------------------------------------------------------------------
(* The engine with goTo(index) called from outside the seek slider.        *)

NextGoTo ==
    \/ Next
    \/ GoTo

SpecGoTo == Init /\ [][NextGoTo]_vars

----------------------------------------------------------------------------
(* CameraRig on its own: any mode of CameraStyle, frame after frame.       *)

InitCamera ==
    /\ InitProgram
    /\ observe = "camera"
    /\ \E mode \in CameraStyles, pose \in StartPoses :
          camera = [mode |-> mode, t |-> 0, x |-> pose.x, y |-> pose.y, z |-> pose.z,
                    look |-> pose.look, roll |-> pose.roll, branch |-> ""]

NextCamera ==
    \/ Frame
    \/ ChangeMode

SpecCamera == InitCamera /\ [][NextCamera]_vars

----------------------------------------------------------------------------
(* Properties.                                                             *)

\* The texts handed to speechSynthesis.speak by the last handler.
SpokenBy(h) == { h.calls[i].text : i \in { j \in DOMAIN h.calls : h.calls[j].call = "speak" } }

\* How many times the last handler called speechSynthesis.speak.
SpeakCount(h) == Cardinality({ j \in DOMAIN h.calls : h.calls[j].call = "speak" })

\* The last handler was a startShow that got past the empty-name return.
ShowStarted == last.op \in {"startShow", "suggestion"} /\ last.provided

\* C1: in every reachable state with a non-empty sequence, 0 <= active < len(sequence).
C1_ActiveInRange ==
    Len(scenes.list) > 0 => (0 <= active /\ active < Len(scenes.list))

\* C1 witness: the interval has advanced the show past its last scene, back to scene 0.
C1_Witness ==
    /\ last.op = "timer"
    /\ Len(scenes.list) > 0
    /\ active = 0

\* C2: every startShow that installs a sequence leaves a fresh non-empty
\* sequence, active = 0 and playing = true, and hands scene 0 to the
\* synthesiser exactly when narration is enabled (where the browser has a
\* synthesiser).
C2_StartShowResets ==
    ShowStarted =>
        /\ scenes.id = shows
        /\ Len(scenes.list) > 0
        /\ active = 0
        /\ playing
        /\ speechAvailable =>
              SpokenBy(last) = IF narration THEN { scenes.list[1].narration } ELSE { }

\* C2 witness: a second show has been started and its first scene is narrated.
C2_Witness ==
    /\ ShowStarted
    /\ shows = 2
    /\ narration
    /\ speechAvailable
    /\ SpokenBy(last) = { scenes.list[1].narration }

\* C3: after N consecutive next() calls (clicks or interval firings) that
\* began at index 0, active = N mod L; after N consecutive previous() calls
\* that began at index 0, active = (-N) mod L.
C3_WrapAround ==
    LET L == Len(scenes.list) IN
    /\ run.kind = "next" => active = run.n % L
    /\ run.kind = "previous" => active = (L - (run.n % L)) % L

\* C3 witness: a run of next() calls longer than the sequence.
C3_Witness ==
    /\ run.kind = "next"
    /\ run.n > Len(scenes.list)

\* C4: with one scene and narration enabled, next() and previous() leave
\* active at 0 and speak that scene once per call.
C4_SingleSceneReactivates ==
    (/\ Len(scenes.list) = 1
     /\ last.op \in {"next", "previous"}
     /\ narration
     /\ speechAvailable)
        => /\ active = 0
           /\ SpeakCount(last) = 1
           /\ SpokenBy(last) = { scenes.list[1].narration }

\* C4 witness: next() has been clicked on a one-scene show with narration on.
C4_Witness ==
    /\ Len(scenes.list) = 1
    /\ last.op = "next"
    /\ narration
    /\ speechAvailable

\* A text that holds nothing but whitespace.
Blank(s) == \A i \in DOMAIN s : s[i] \in {" ", "\t", "\n"}

\* C5: startShow with a name that is empty after trimming changes nothing:
\* the provider is not called, nothing is spoken, and sequence, active,
\* playing, loading, autoplay, narration, quality, the utterance and the
\* interval are as before.
C5_EmptyTopicNoOp ==
    [][ (BeginClick("local") /\ Blank(eventName))
          => /\ UNCHANGED <<scenes, active, playing, loading, autoplay, narration,
                            quality, utterance, timer, shows>>
             /\ ~last'.provided
             /\ last'.calls = << >> ]_vars

\* C5 witness: Begin was clicked with a blank name while a show was playing.
C5_Witness ==
    /\ last.op = "startShow"
    /\ ~last.provided
    /\ eventName = <<" ", " ">>
    /\ Len(scenes.list) > 0
    /\ playing

\* C6: right after narration is switched off, no utterance is in flight.
C6_DisableCancels ==
    (last.op = "setNarration" /\ ~narration) => ~Speaking

\* C7: while narration is disabled no handler hands anything to the
\* synthesiser, and switching narration (on or off) does not speak.
C7_SilentWhileDisabled ==
    /\ ~narration => SpeakCount(last) = 0
    /\ last.op = "setNarration" => SpeakCount(last) = 0

\* C7 witness: the interval fired with narration switched off.
C7_Witness ==
    /\ last.op = "timer"
    /\ ~narration
    /\ speechAvailable
    /\ SpeakCount(last) = 0

\* C8: the interval's callback runs only in states where playing, autoplay
\* and a non-empty sequence all hold.
C8_FiresOnlyWhilePlaying ==
    [][ TimerFire => (playing /\ autoplay /\ Len(scenes.list) > 0) ]_vars

\* C8 witness: the interval has fired on a playing show and moved it to scene 1.
C8_Witness ==
    /\ last.op = "timer"
    /\ playing
    /\ autoplay
    /\ active = 1

\* C9: the interval's callback never runs while autoplay is off, and after
\* autoplay is switched back on it first runs no sooner than one full period
\* later, exactly one period later when nothing else re-armed the interval.
C9_AutoplayOffStopsOnRestartsFresh ==
    [][ TimerFire =>
          /\ autoplay
          /\ clock.autoOn >= Period
          /\ clock.autoFresh => clock.autoOn = Period ]_vars

\* C9 witness: the interval has just fired, one period after autoplay was
\* switched back on.
C9_Witness ==
    /\ clock.fired
    /\ clock.autoOn = Period

\* C10 as stated: an automatic advance comes exactly one period after the
\* most recent change of sequence, playing or autoplay (or the previous
\* automatic advance).
C10_ExactlyOnePeriodAfterCoreChange ==
    [][ TimerFire => clock.core = Period ]_vars

\* C10 amended: an automatic advance comes exactly one period after the most
\* recent change of sequence, playing, autoplay, narration or locale (or the
\* previous automatic advance), hence no sooner than one period after the
\* most recent change of sequence, playing or autoplay, and its callback
\* holds the current sequence.
C10_OnePeriodAfterLastRearm ==
    [][ TimerFire =>
          /\ clock.deps = Period
          /\ clock.core >= Period
          /\ timer.scenes = scenes ]_vars

\* C10 witness: the interval has just fired for the second sequence.
C10_Witness ==
    /\ clock.fired
    /\ shows = 2
    /\ timer.scenes = scenes

\* The step is a startShow with the failing provider in place.
StartShowFailing == BeginClick("failing") \/ SuggestionClick("failing")

\* C11: a startShow whose provider returns a batch holding a scene with an
\* unknown camera style installs nothing: sequence, active and playing are
\* exactly what they were before the call.
C11_UnknownStyleRejected ==
    [][ (StartShowFailing /\ last'.answer = "unknownStyle")
          => UNCHANGED <<scenes, active, playing>> ]_vars

\* C12: a startShow whose provider throws or returns an empty array installs
\* nothing: loading ends false and sequence, active and playing are as
\* before, so Idle stays Idle and an active show stays as it was.
C12_FailureInstallsNothing ==
    [][ (StartShowFailing /\ last'.answer \in {"threw", "empty"})
          => /\ loading' = FALSE
             /\ UNCHANGED <<scenes, active, playing>> ]_vars

C14_SeekNarrates ==
    (last.op = "seek" /\ narration /\ speechAvailable)
        => SpokenBy(last) = { NarrationAt(scenes.list, active) }

\* The last handler activated a scene: startShow, seek, next, previous or
\* the interval's callback.
Activation == ShowStarted \/ last.op \in {"seek", "next", "previous", "timer"}

\* C15: only scene activations speak, each exactly once when narration is
\* enabled; togglePlay, setAutoplay, setNarrationEnabled, setQuality and a
\* change of language never speak.
C15_NarrationOnlyOnActivation ==
    /\ last.op \in {"togglePlay", "setAutoplay", "setNarration", "setQuality", "setLocale"}
          => SpeakCount(last) = 0
    /\ SpeakCount(last) > 0 => Activation
    /\ (Activation /\ narration /\ speechAvailable) => SpeakCount(last) = 1

\* C16: the synthesiser never holds more than one utterance, spoken or
\* waiting.
C16_AtMostOneUtterance == Len(utterance) <= 1

\* C16 witness: the interval's callback has cancelled and spoken, and the
\* one utterance the synthesiser holds is the scene it moved to.
C16_Witness ==
    /\ last.op = "timer"
    /\ Len(last.calls) = 2
    /\ last.calls[1].call = "cancel"
    /\ active = 2
    /\ utterance = << Utterance(NarrationAt(scenes.list, active), locale) >>

\* C17: once the component has unmounted no utterance is in flight, the
\* interval is disarmed and never fires, and active never changes again.
C17_TeardownIsFinal ==
    [][ ~mounted' =>
          /\ utterance' = NoUtterance
          /\ ~timer'.armed
          /\ ~mounted => (active' = active /\ ~TimerFire) ]_vars

\* C17 witness: the component has unmounted in the middle of a playing show
\* with autoplay and narration on.
C17_Witness ==
    /\ ~mounted
    /\ last.op = "unmount"
    /\ Len(last.calls) = 1
    /\ playing
    /\ autoplay
    /\ narration
    /\ active = 1

\* C19: togglePlay flips playing and leaves active, sequence, autoplay,
\* narration and quality as they were; it neither speaks nor cancels.
C19_TogglePlayOnlyFlipsPlaying ==
    [][ TogglePlay =>
          /\ playing' = ~playing
          /\ UNCHANGED <<active, scenes, autoplay, narration, quality, utterance>>
          /\ last'.calls = << >> ]_vars

\* C19 witness: the show was paused at scene 1 while its narration was
\* being spoken, and the narration is still being spoken.
C19_Witness ==
    /\ last.op = "togglePlay"
    /\ ~playing
    /\ active = 1
    /\ utterance = << Utterance(NarrationAt(scenes.list, 1), locale) >>

\* C20: setQuality leaves sequence, active, playing, autoplay and narration
\* as they were, and the interval keeps running as it was: neither
\* cancelled nor restarted.
C20_QualityLeavesScheduling ==
    [][ SetQuality => UNCHANGED <<scenes, active, playing, autoplay, narration, timer>> ]_vars

\* C20 witness: quality was changed part-way through a period of the
\* running interval, which keeps its elapsed time.
C20_Witness ==
    /\ last.op = "setQuality"
    /\ quality = 2
    /\ timer.armed
    /\ timer.elapsed > 0

\* C21: on every frame a push-pull scene takes the dolly-in case of the
\* switch: the camera moves exactly as it would for a dolly-in scene.
C21_PushPullIsDollyIn ==
    [][ (Frame /\ camera.mode = "push-pull")
          => /\ camera'.branch = "dolly-in"
             /\ <<camera'.x, camera'.y, camera'.z, camera'.look, camera'.roll>>
                  = LET d == DollyIn(camera, camera.t)
                    IN <<d.x, d.y, d.z, d.look, d.roll>> ]_vars

\* C22: the frame of an orbit-slow scene at elapsed time 0 puts the camera
\* at (0, 2, 6), looking at (0, 1.2, 0), whatever its pose was before.
C22_OrbitPoseAtZero ==
    [][ (Frame /\ camera.mode = "orbit-slow" /\ camera.t = 0)
          => /\ camera'.x = 0
             /\ camera'.y = 2 * Milli
             /\ camera'.z = 6 * Milli
             /\ camera'.look = <<0, 1200, 0>> ]_vars

\* C22 witness: the frame at time 0 of an orbit-slow scene has run on a
\* camera that was not at the Canvas pose (its roll is kept).
C22_Witness ==
    /\ camera.mode = "orbit-slow"
    /\ camera.branch = "orbit-slow"
    /\ camera.t = 1
    /\ camera.roll = 2
    /\ <<camera.x, camera.y, camera.z>> = <<0, 2000, 6000>>

\* C23: the window never holds more than one interval, the one the effect
\* holds, and it holds one exactly when the component is mounted, playing
\* and autoplay are on and the sequence is not empty.
C23_OneTimerIffPlaying ==
    /\ intervals <= 1
    /\ timer.armed <=> intervals = 1
    /\ timer.armed <=> (mounted /\ playing /\ autoplay /\ Len(scenes.list) > 0)

\* C23 witness: the second show, paused and resumed, has its one interval.
C23_Witness ==
    /\ last.op = "togglePlay"
    /\ shows = 2
    /\ playing
    /\ timer.armed
    /\ intervals = 1

\* C24: previous, next and seek leave the interval as it is: it is neither
\* cleared nor set again and keeps the time it has already run.
C24_NavigationKeepsTimer ==
    [][ (PreviousClick \/ NextClick \/ Seek) => UNCHANGED <<timer, intervals>> ]_vars

\* C24 witness: the interval has just fired less than one period after a
\* manual navigation.
C24_Witness ==
    /\ clock.fired
    /\ clock.nav > 0
    /\ clock.nav < Period

\* C25: a change of narration or of the language while the interval runs
\* clears it and sets it again with a full period ahead, so changes coming
\* less than a period apart keep the automatic advance from happening
\* while playing and autoplay stay on.
C25_NarrationAndLocaleRearm ==
    [][ (/\ SetNarration \/ SetLocale
         /\ <<narration', locale'>> # <<narration, locale>>
         /\ timer.armed)
          => /\ timer' = ArmedTimer(scenes, narration', locale')
             /\ timer'.elapsed = 0
             /\ intervals' = intervals
             /\ playing' /\ autoplay' ]_vars

\* C25 witness: more than a period after the show began, with playing and
\* autoplay on throughout, the interval has never fired and is once more
\* at the start of its period because the language was just changed.
C25_Witness ==
    /\ clock.core = Beyond
    /\ clock.deps = 0
    /\ locale = "es-ES"
    /\ active = 0
    /\ playing
    /\ autoplay
    /\ timer.armed
    /\ timer.elapsed = 0

\* The show runs by itself: mounted, playing, autoplay on, scenes present.
Steady == mounted /\ playing /\ autoplay /\ Len(scenes.list) > 0

\* C26 as stated: if from some point on the show runs by itself and no
\* render re-runs the autoplay effect, every index of the sequence is
\* active again and again.
C26_EveryIndexRecurs ==
    \A i \in 0..2 :
        (<>[](Steady /\ i < Len(scenes.list)) /\ <>[][~EffectReruns]_vars)
            => []<>(active = i)

\* C26 amended: the same when, in addition, from some point on there is no
\* click on previous and no move of the seek slider.
C26_EveryIndexRecursUnlessSentBack ==
    \A i \in 0..2 :
        (/\ <>[](Steady /\ i < Len(scenes.list))
         /\ <>[][~EffectReruns]_vars
         /\ <>[][~(PreviousClick \/ Seek)]_vars)
            => []<>(active = i)

\* C26 witness: a run of next() calls has taken the playing show past its
\* last scene and on to scene 1 again.
C26_Witness ==
    /\ Steady
    /\ timer.armed
    /\ run.kind = "next"
    /\ run.n = Len(scenes.list) + 1
    /\ active = 1

====
